---- MODULE Spec2Model ----
(***************************************************************************)
(* Tricksy Battle (src/tricksy_battle.py): a two-player trick-taking card  *)
(* game.  The module models the Card/Deck/Player classes, the prompt       *)
(* helpers and main() as a state machine whose program counter pc walks    *)
(* through the statements of main().                                       *)
(***************************************************************************)
EXTENDS Integers, Sequences, FiniteSets, TLC

VARIABLES
    pc,          \* position in main(): name1, name2, loop, lead, follow, resolve, reveal, redeal, report, done, crashed
    name,        \* name[p] = p1.name / p2.name, a sequence of characters
    hand,        \* hand[p] = the list p.hand
    deck,        \* deck.cards, top of the deck is the END of the list
    score,       \* the dict score, keyed by player NAME
    leader,      \* the current leader (1 = p1, 2 = p2)
    follower,    \* the current follower
    deals_done,  \* number of 4-card re-deals done
    round_num,   \* round counter
    lead_card,   \* lead_card of the round in progress
    follow_card, \* follow_card of the round in progress
    winner,      \* winner of the last resolved trick (0 = not yet assigned)
    retried,     \* the prompt_card_choice call in progress has printed "Invalid selection; try again."
    err,         \* the exception that ended the process, if any: ValueError, IndexError, EOFError
    report,      \* the final summary line printed by main()
    played,      \* history: cards removed from a hand by hand.remove
    revealed     \* history: cards returned by deck.draw()

vars ==
    << pc, name, hand, deck, score, leader, follower, deals_done, round_num,
       lead_card, follow_card, winner, retried, err, report, played, revealed >>

(***************************************************************************)
(* Bounds of the model.                                                    *)
(***************************************************************************)
\* longest line typed at a card prompt
MaxInputLen ==
    1
\* number of shuffle outcomes explored
NumShuffles ==
    1

(***************************************************************************)
(* Card                                                                    *)
(***************************************************************************)
SUITS ==
    << "Hearts", "Diamonds", "Clubs", "Spades" >>

RANKS ==
    << "2", "3", "4", "5", "6", "7", "8", "9", "10", "Jack", "Queen", "Ace" >>

\* VALUE_MAP = {rank: i+2 for i, rank in enumerate(RANKS)}, i counted from 0
VALUE_MAP(rank) ==
    (CHOOSE i \in 1..Len(RANKS) : RANKS[i] = rank) + 1

Card(s, r) ==
    [suit |-> s, rank |-> r]

Value(card) ==
    VALUE_MAP(card.rank)

\* Python's None where a card is expected
NoCard ==
    [suit |-> "None", rank |-> "None"]

AllCards ==
    { Card(SUITS[i], RANKS[j]) : i \in 1..Len(SUITS), j \in 1..Len(RANKS) }

Elems(s) ==
    { s[i] : i \in 1..Len(s) }

(***************************************************************************)
(* Deck                                                                    *)
(***************************************************************************)
\* [Card(s, r) for s in Card.SUITS for r in Card.RANKS]
NewCards ==
    [ k \in 1..(Len(SUITS) * Len(RANKS)) |->
        Card(SUITS[((k - 1) \div Len(RANKS)) + 1], RANKS[((k - 1) % Len(RANKS)) + 1]) ]

\* Outcomes of random.shuffle explored: the permutation i -> a*i + b (mod 48),
\* a coprime to 48, given as << a, b >>.
ShuffleOutcomes ==
    << << 1, 1 >>, << 1, 10 >>, << 47, 11 >>, << 23, 7 >> >>

\* random.shuffle(self.cards) with outcome p
Shuffle(cards, p) ==
    [ i \in 1..Len(cards) |-> cards[((p[1] * (i - 1) + p[2]) % Len(cards)) + 1] ]

\* Deck.deal(n): [self.cards.pop() for _ in range(n)].  pop() on an empty list
\* raises IndexError; the cards popped before that are gone from the deck.
Deal(cards, n) ==
    IF Len(cards) >= n
    THEN [ ok |-> TRUE,
           dealt |-> [ i \in 1..n |-> cards[Len(cards) + 1 - i] ],
           rest |-> SubSeq(cards, 1, Len(cards) - n) ]
    ELSE [ ok |-> FALSE, dealt |-> << >>, rest |-> << >> ]

DrawTwoCards(cards) ==
    IF Len(cards) >= 2
    THEN [ card |-> cards[Len(cards)], rest |-> SubSeq(cards, 1, Len(cards) - 2) ]
    ELSE [ card |-> NoCard, rest |-> << >> ]

DrawKeepsCard(cards) ==
    IF cards # << >>
    THEN [ card |-> cards[Len(cards)], rest |-> cards ]
    ELSE [ card |-> NoCard, rest |-> cards ]

\* Deck.draw(): self.cards.pop() if self.cards else None
Draw(cards) ==
    IF cards # << >>
    THEN [ card |-> cards[Len(cards)], rest |-> SubSeq(cards, 1, Len(cards) - 1) ]
    ELSE [ card |-> NoCard, rest |-> cards ]

(***************************************************************************)
(* Text typed at the prompts: a line is a sequence of characters.          *)
(***************************************************************************)
DecimalChars ==
    << "0", "1", "2", "3", "4", "5", "6", "7", "8", "9" >>

\* U+00B2 SUPERSCRIPT TWO: str.isdigit() is True for it, int() rejects it
Superscript2 ==
    "sup2"

SeqsUpTo(S, n) ==
    UNION { [1..k -> S] : k \in 0..n }

\* the keys typed at a card prompt
CardChars ==
    { "0", "1", "2", "x", Superscript2 }

CardInputs ==
    SeqsUpTo(CardChars, MaxInputLen)

\* the lines typed at a name prompt: "", " ", "A", " A "
NameInputs ==
    { << >>, << " " >>, << "A" >>, << " ", "A", " " >> }

RECURSIVE Strip(_)
\* str.strip(): drop leading and trailing blanks
Strip(s) ==
    IF s = << >> THEN s
    ELSE IF Head(s) = " " THEN Strip(Tail(s))
    ELSE IF s[Len(s)] = " " THEN Strip(SubSeq(s, 1, Len(s) - 1))
    ELSE s

DefaultName1 ==
    << "P", "l", "a", "y", "e", "r", " ", "1" >>

DefaultName2 ==
    << "P", "l", "a", "y", "e", "r", " ", "2" >>

\* input(...).strip() or default
NameOrDefault(typed, default) ==
    IF Strip(typed) = << >> THEN default ELSE Strip(typed)

\* str.isdigit()
IsDigit(s) ==
    /\ Len(s) > 0
    /\ \A i \in 1..Len(s) : s[i] \in Elems(DecimalChars) \cup { Superscript2 }

\* sys.get_int_max_str_digits() of the interpreter (CPython 3.11 and later):
\* int() refuses a string of more decimal digits
IntMaxStrDigits ==
    4300

\* int(s) raises ValueError: an empty string, a character that is no decimal
\* digit, or more digits than the interpreter converts
IntRaises(s) ==
    \/ Len(s) = 0
    \/ \E i \in 1..Len(s) : s[i] \notin Elems(DecimalChars)
    \/ Len(s) > IntMaxStrDigits

RECURSIVE IntOf(_)
\* int(s) for a string of decimal digits
IntOf(s) ==
    IF s = << >> THEN 0
    ELSE IntOf(SubSeq(s, 1, Len(s) - 1)) * 10
         + ((CHOOSE d \in 1..10 : DecimalChars[d] = s[Len(s)]) - 1)

(***************************************************************************)
(* prompt_card_choice, get_lead_card, get_follow_card                      *)
(***************************************************************************)
\* One pass of the while-loop of prompt_card_choice on the typed line:
\* "return" the chosen card, "retry" (Invalid selection; try again.) or
\* "raise" (int() raised ValueError).
prompt_card_choice(valid_choices, typed) ==
    IF IsDigit(typed)
    THEN IF IntRaises(typed)
         THEN [ kind |-> "raise", card |-> NoCard ]
         ELSE LET i == IntOf(typed) - 1
              IN  IF 0 <= i /\ i < Len(valid_choices)
                  THEN [ kind |-> "return", card |-> valid_choices[i + 1] ]
                  ELSE [ kind |-> "retry", card |-> NoCard ]
    ELSE [ kind |-> "retry", card |-> NoCard ]

\* the candidate list get_lead_card passes to prompt_card_choice
get_lead_card(player_hand) ==
    player_hand

FollowAnyCard(player_hand, lead_suit) ==
    player_hand

\* the candidate list get_follow_card passes to prompt_card_choice
get_follow_card(player_hand, lead_suit) ==
    LET same_suit == SelectSeq(player_hand, LAMBDA c : c.suit = lead_suit)
    IN  IF same_suit # << >> THEN same_suit ELSE player_hand

RemoveNothing(s, x) ==
    s

RECURSIVE Remove(_, _)
\* list.remove(x): drop the first occurrence of x
Remove(s, x) ==
    IF s = << >> THEN s
    ELSE IF Head(s) = x THEN Tail(s)
    ELSE << Head(s) >> \o Remove(Tail(s), x)

(***************************************************************************)
(* determine_winner, early_termination                                     *)
(***************************************************************************)
WinnerByValueOnly(lead_player, lead, follow_player, follow) ==
    IF Value(follow) > Value(lead) THEN follow_player ELSE lead_player

determine_winner(lead_player, lead, follow_player, follow) ==
    IF follow.suit = lead.suit
    THEN IF Value(follow) > Value(lead) THEN follow_player ELSE lead_player
    ELSE lead_player

EarlyTerminationAtNine(score1, score2) ==
    score1 >= 9 \/ score2 >= 9

early_termination(score1, score2) ==
    (score1 >= 9 /\ score2 >= 1) \/ (score2 >= 9 /\ score1 >= 1)

Other(p) ==
    IF p = 1 THEN 2 ELSE 1

\* score[p1.name], score[p2.name]
ScoreOf(p) ==
    score[name[p]]

(***************************************************************************)
(* main()                                                                  *)
(***************************************************************************)
NoReport ==
    [ kind |-> "none", who |-> << >>, high |-> 0, low |-> 0 ]

\* the process is waiting in input() of line 102
Init ==
    /\ pc = "name1"
    /\ name = [ p \in 1..2 |-> << >> ]
    /\ hand = [ p \in 1..2 |-> << >> ]
    /\ deck = << >>
    /\ score = << >>
    /\ leader = 1
    /\ follower = 2
    /\ deals_done = 0
    /\ round_num = 0
    /\ lead_card = NoCard
    /\ follow_card = NoCard
    /\ winner = 0
    /\ retried = FALSE
    /\ err = "none"
    /\ report = NoReport
    /\ played = {}
    /\ revealed = {}

\* line 102: a line typed at "Enter name for Player 1: " binds p1; the process
\* then waits in input() of line 103
NamePrompt ==
    /\ pc = "name1"
    /\ \E typed1 \in NameInputs :
          name' = [ name EXCEPT ![1] = NameOrDefault(typed1, DefaultName1) ]
    /\ pc' = "name2"
    /\ UNCHANGED << hand, deck, score, leader, follower, deals_done, round_num,
                    lead_card, follow_card, winner, retried, err, report, played, revealed >>

\* lines 103-118: a line typed at "Enter name for Player 2: " binds p2; then
\* deck, first deal, score dict, first leader, counters
Setup ==
    /\ pc = "name2"
    /\ \E typed2 \in NameInputs, k \in 1..NumShuffles, first \in BOOLEAN :
          LET n1 == name[1]
              n2 == NameOrDefault(typed2, DefaultName2)
              cards == Shuffle(NewCards, ShuffleOutcomes[k])
              d1 == Deal(cards, 8)
              d2 == Deal(d1.rest, 8)
          IN  /\ name' = [ p \in 1..2 |-> IF p = 1 THEN n1 ELSE n2 ]
              /\ hand' = [ p \in 1..2 |-> IF p = 1 THEN d1.dealt ELSE d2.dealt ]
              /\ deck' = d2.rest
              /\ score' = [ n \in { n1, n2 } |-> 0 ]
              /\ leader' = IF first THEN 1 ELSE 2
              /\ follower' = IF first THEN 2 ELSE 1
    /\ deals_done' = 0
    /\ round_num' = 0
    /\ pc' = "loop"
    /\ UNCHANGED << lead_card, follow_card, winner, retried, err, report, played, revealed >>

LoopWhileAtMost16(r, s1, s2) ==
    r <= 16 /\ ~ early_termination(s1, s2)

LoopOnlyRoundCap(r, s1, s2) ==
    r < 16

\* the while condition of line 121
LoopCondition(r, s1, s2) ==
    r < 16 /\ ~ early_termination(s1, s2)

\* lines 121-123: test the loop condition, start a round or leave the loop
LoopTest ==
    /\ pc = "loop"
    /\ IF LoopCondition(round_num, ScoreOf(1), ScoreOf(2))
       THEN /\ round_num' = round_num + 1
            /\ pc' = "lead"
       ELSE /\ round_num' = round_num
            /\ pc' = "report"
    /\ UNCHANGED << name, hand, deck, score, leader, follower, deals_done,
                    lead_card, follow_card, winner, retried, err, report, played, revealed >>

\* lines 126-128: one line typed at the leader's prompt
LeadPrompt ==
    /\ pc = "lead"
    /\ \E typed \in CardInputs :
          LET r == prompt_card_choice(get_lead_card(hand[leader]), typed)
          IN  CASE r.kind = "return" ->
                     /\ lead_card' = r.card
                     /\ hand' = [ hand EXCEPT ![leader] = Remove(@, r.card) ]
                     /\ played' = played \cup { r.card }
                     /\ retried' = FALSE
                     /\ pc' = "follow"
                     /\ err' = err
                [] r.kind = "retry" ->
                     /\ retried' = TRUE
                     /\ UNCHANGED << lead_card, hand, played, pc, err >>
                [] r.kind = "raise" ->
                     /\ retried' = retried
                     /\ pc' = "crashed"
                     /\ err' = "ValueError"
                     /\ UNCHANGED << lead_card, hand, played >>
    /\ UNCHANGED << name, deck, score, leader, follower, deals_done, round_num,
                    follow_card, winner, report, revealed >>

\* lines 131-133: one line typed at the follower's prompt
FollowPrompt ==
    /\ pc = "follow"
    /\ \E typed \in CardInputs :
          LET r == prompt_card_choice(get_follow_card(hand[follower], lead_card.suit), typed)
          IN  CASE r.kind = "return" ->
                     /\ follow_card' = r.card
                     /\ hand' = [ hand EXCEPT ![follower] = Remove(@, r.card) ]
                     /\ played' = played \cup { r.card }
                     /\ retried' = FALSE
                     /\ pc' = "resolve"
                     /\ err' = err
                [] r.kind = "retry" ->
                     /\ retried' = TRUE
                     /\ UNCHANGED << follow_card, hand, played, pc, err >>
                [] r.kind = "raise" ->
                     /\ retried' = retried
                     /\ pc' = "crashed"
                     /\ err' = "ValueError"
                     /\ UNCHANGED << follow_card, hand, played >>
    /\ UNCHANGED << name, deck, score, leader, follower, deals_done, round_num,
                    lead_card, winner, report, revealed >>

NextFollowerAlwaysP2(w) ==
    2

\* line 141: the follower of the next round, p1 if winner is p2 else p2
NextFollower(w) ==
    IF w = 2 THEN 1 ELSE 2

\* lines 136-141: trick winner, score update, next leader
Resolve ==
    /\ pc = "resolve"
    /\ LET w == determine_winner(leader, lead_card, follower, follow_card)
       IN  /\ winner' = w
           /\ score' = [ score EXCEPT ![name[w]] = @ + 1 ]
           /\ leader' = w
           /\ follower' = NextFollower(w)
    /\ pc' = "reveal"
    /\ UNCHANGED << name, hand, deck, deals_done, round_num, lead_card, follow_card,
                    retried, err, report, played, revealed >>

\* lines 144-146: reveal one card from the deck
Reveal ==
    /\ pc = "reveal"
    /\ LET rev == Draw(deck)
       IN  /\ deck' = rev.rest
           /\ revealed' = IF rev.card # NoCard THEN revealed \cup { rev.card } ELSE revealed
    /\ pc' = "redeal"
    /\ UNCHANGED << name, hand, score, leader, follower, deals_done, round_num,
                    lead_card, follow_card, winner, retried, err, report, played >>

RedealUpToThree(h1, h2, done) ==
    Len(h1) = 4 /\ Len(h2) = 4 /\ done < 3

RedealWithoutCap(h1, h2, done) ==
    Len(h1) = 4 /\ Len(h2) = 4

RedealOnlyOnce(h1, h2, done) ==
    Len(h1) = 4 /\ Len(h2) = 4 /\ done < 1

RedealAtFive(h1, h2, done) ==
    Len(h1) = 5 /\ Len(h2) = 5 /\ done < 2

\* the condition of line 149
RedealCondition(h1, h2, done) ==
    Len(h1) = 4 /\ Len(h2) = 4 /\ done < 2

\* lines 149-156: the conditional 4-card re-deal, then back to the loop test
ReDeal ==
    /\ pc = "redeal"
    /\ IF RedealCondition(hand[1], hand[2], deals_done)
       THEN LET d1 == Deal(deck, 4)
                d2 == Deal(d1.rest, 4)
            IN  IF d1.ok /\ d2.ok
                THEN /\ hand' = [ p \in 1..2 |-> hand[p] \o (IF p = 1 THEN d1.dealt ELSE d2.dealt) ]
                     /\ deck' = d2.rest
                     /\ deals_done' = deals_done + 1
                     /\ pc' = "loop"
                     /\ err' = err
                ELSE /\ hand' = [ hand EXCEPT ![1] = @ \o d1.dealt ]
                     /\ deck' = << >>
                     /\ deals_done' = deals_done
                     /\ pc' = "crashed"
                     /\ err' = "IndexError"
       ELSE /\ pc' = "loop"
            /\ UNCHANGED << hand, deck, deals_done, err >>
    /\ UNCHANGED << name, score, leader, follower, round_num, lead_card, follow_card,
                    winner, retried, report, played, revealed >>

FinalReportTieToP1(n1, n2, s1, s2) ==
    IF s1 = 0 /\ s2 = 16
    THEN [ kind |-> "moon", who |-> n1, high |-> 17, low |-> s2 ]
    ELSE IF s2 = 0 /\ s1 = 16
    THEN [ kind |-> "moon", who |-> n2, high |-> 17, low |-> s1 ]
    ELSE IF s1 >= s2
    THEN [ kind |-> "win", who |-> n1, high |-> 0, low |-> 0 ]
    ELSE [ kind |-> "win", who |-> n2, high |-> 0, low |-> 0 ]

\* lines 162-171: the line printed after the final score
FinalReport(n1, n2, s1, s2) ==
    IF s1 = 0 /\ s2 = 16
    THEN [ kind |-> "moon", who |-> n1, high |-> 17, low |-> s2 ]
    ELSE IF s2 = 0 /\ s1 = 16
    THEN [ kind |-> "moon", who |-> n2, high |-> 17, low |-> s1 ]
    ELSE IF s1 > s2
    THEN [ kind |-> "win", who |-> n1, high |-> 0, low |-> 0 ]
    ELSE IF s2 > s1
    THEN [ kind |-> "win", who |-> n2, high |-> 0, low |-> 0 ]
    ELSE [ kind |-> "tie", who |-> << >>, high |-> 0, low |-> 0 ]

\* input() of lines 60, 102 and 103 when the input stream has ended: EOFError,
\* which nothing catches
EndOfInput ==
    /\ pc \in { "name1", "name2", "lead", "follow" }
    /\ pc' = "crashed"
    /\ err' = "EOFError"
    /\ UNCHANGED << name, hand, deck, score, leader, follower, deals_done, round_num,
                    lead_card, follow_card, winner, retried, report, played, revealed >>

\* lines 159-171: game over summary
Report ==
    /\ pc = "report"
    /\ report' = FinalReport(name[1], name[2], ScoreOf(1), ScoreOf(2))
    /\ pc' = "done"
    /\ UNCHANGED << name, hand, deck, score, leader, follower, deals_done, round_num,
                    lead_card, follow_card, winner, retried, err, played, revealed >>

Next ==
    \/ NamePrompt
    \/ Setup
    \/ LoopTest
    \/ LeadPrompt
    \/ FollowPrompt
    \/ Resolve
    \/ Reveal
    \/ ReDeal
    \/ Report
    \/ EndOfInput

Spec ==
    Init /\ [][Next]_vars

\* the program always executes its next statement; at a prompt (the two name
\* prompts, the card prompts) it waits for a line, and whether and what is
\* typed is up to the players
LiveSpec ==
    /\ Spec
    /\ WF_vars(LoopTest)
    /\ WF_vars(Resolve)
    /\ WF_vars(Reveal)
    /\ WF_vars(ReDeal)
    /\ WF_vars(Report)

(***************************************************************************)
(* determine_winner applied to arbitrary pairs of cards                    *)
(***************************************************************************)
TrickInit ==
    /\ pc = "trick"
    /\ lead_card \in AllCards
    /\ follow_card \in AllCards
    /\ leader \in 1..2
    /\ follower = Other(leader)
    /\ name = [ p \in 1..2 |-> IF p = 1 THEN DefaultName1 ELSE DefaultName2 ]
    /\ hand = [ p \in 1..2 |-> << >> ]
    /\ deck = << >>
    /\ score = [ n \in { DefaultName1, DefaultName2 } |-> 0 ]
    /\ deals_done = 0
    /\ round_num = 0
    /\ winner = 0
    /\ retried = FALSE
    /\ err = "none"
    /\ report = NoReport
    /\ played = {}
    /\ revealed = {}

\* line 136 on its own
TrickResolve ==
    /\ pc = "trick"
    /\ winner' = determine_winner(leader, lead_card, follower, follow_card)
    /\ pc' = "tricked"
    /\ UNCHANGED << name, hand, deck, score, leader, follower, deals_done, round_num,
                    lead_card, follow_card, retried, err, report, played, revealed >>

TrickNext ==
    TrickResolve

SpecTrick ==
    TrickInit /\ [][TrickNext]_vars

(***************************************************************************)
(* Properties                                                              *)
(***************************************************************************)
HasSuit(h, s) ==
    \E c \in Elems(h) : c.suit = s

InRound ==
    pc \in { "lead", "follow", "resolve", "reveal", "redeal" }

GameOver ==
    pc \in { "report", "done" }

\* the score dict of line 110 exists: setup is complete and the game has begun
SetupDone ==
    DOMAIN score # {}

TotalScore ==
    IF SetupDone THEN ScoreOf(1) + ScoreOf(2) ELSE 0

\* C1: whenever the follower plays a card, that card comes from the follower's
\* hand, and if the hand held a card of the lead suit the played card has the
\* lead suit.
SuitFollowingEnforced ==
    [][ (pc = "follow" /\ pc' = "resolve") =>
          /\ follow_card' \in Elems(hand[follower])
          /\ (HasSuit(hand[follower], lead_card.suit) => follow_card'.suit = lead_card.suit) ]_vars

\* the follower followed suit while still holding cards of other suits
SuitFollowingWitness ==
    /\ pc = "resolve"
    /\ follow_card.suit = lead_card.suit
    /\ \E c \in Elems(hand[follower]) : c.suit # lead_card.suit

\* C2: determine_winner returns the follower exactly when the follow card has
\* the lead card's suit and a strictly greater value, and the leader otherwise.
TrickResolution ==
    pc = "tricked" =>
        /\ winner \in { leader, follower }
        /\ winner = follower <=>
              (follow_card.suit = lead_card.suit /\ Value(follow_card) > Value(lead_card))

\* an off-suit follow card of greater value loses to the lead card
TrickResolutionWitness ==
    /\ pc = "tricked"
    /\ follow_card.suit # lead_card.suit
    /\ Value(follow_card) > Value(lead_card)
    /\ winner = leader

\* C3: after setup the deck, the two hands, the played cards and the revealed
\* cards are pairwise disjoint and together are exactly the 48 cards.
CardConservation ==
    SetupDone =>
        LET D == Elems(deck)
            H1 == Elems(hand[1])
            H2 == Elems(hand[2])
        IN  /\ D \cup H1 \cup H2 \cup played \cup revealed = AllCards
            /\ D \cap (H1 \cup H2 \cup played \cup revealed) = {}
            /\ H1 \cap (H2 \cup played \cup revealed) = {}
            /\ H2 \cap (played \cup revealed) = {}
            /\ played \cap revealed = {}
            /\ Cardinality(AllCards) = 48
            /\ Len(deck) + Len(hand[1]) + Len(hand[2])
                 + Cardinality(played) + Cardinality(revealed) = 48

\* a full game: 32 cards played, 16 revealed
CardConservationWitness ==
    /\ pc = "done"
    /\ Cardinality(played) = 32
    /\ Cardinality(revealed) = 16

\* every card prompt that is reached is eventually answered by a valid selection
PromptsAnswered ==
    /\ (pc = "lead") ~> (pc = "follow")
    /\ (pc = "follow") ~> (pc = "resolve")

\* C4: the round counter never exceeds 16, and if every card prompt eventually
\* receives a valid selection every game, once set up, eventually reaches game
\* over.
TerminationBound ==
    /\ [](round_num <= 16)
    /\ (PromptsAnswered => (SetupDone ~> (pc = "done")))

\* game over after the full 16 rounds
TerminationWitness ==
    /\ pc = "done"
    /\ round_num = 16

\* the early-termination predicate of the rules, on the two players' scores
EarlyPredicate ==
    \/ (ScoreOf(1) >= 9 /\ ScoreOf(2) >= 1)
    \/ (ScoreOf(2) >= 9 /\ ScoreOf(1) >= 1)

\* the loop test is the only way into game over, and a round in progress
\* goes through its steps in order
RoundsRunToCompletion ==
    /\ [][ (GameOver' /\ ~ GameOver) => pc = "loop" ]_vars
    /\ [][ pc = "lead" => pc' \in { "lead", "follow", "crashed" } ]_vars
    /\ [][ pc = "follow" => pc' \in { "follow", "resolve", "crashed" } ]_vars
    /\ [][ pc = "resolve" => pc' = "reveal" ]_vars
    /\ [][ pc = "reveal" => pc' = "redeal" ]_vars
    /\ [][ pc = "redeal" => pc' \in { "loop", "crashed" } ]_vars

\* no round is started while the predicate holds
NoRoundWhilePredicate ==
    [][ (pc = "loop" /\ EarlyPredicate) => (pc' = "report" /\ round_num' = round_num) ]_vars

\* C5 as stated: the game is over with fewer than 16 rounds played if and only
\* if the early-termination predicate holds at the round boundary; no round is
\* started while it holds and rounds run to completion.
EarlyTerminationIff ==
    /\ [](GameOver => (round_num < 16 <=> EarlyPredicate))
    /\ NoRoundWhilePredicate
    /\ RoundsRunToCompletion

\* C5 amended: the game is over with fewer than 16 rounds played if and only
\* if the predicate holds at a round boundary reached after fewer than 16
\* rounds; no round is started while it holds and rounds run to completion.
EarlyTerminationBefore16 ==
    /\ [](GameOver /\ round_num < 16 => EarlyPredicate)
    /\ [][ (pc = "loop" /\ round_num < 16) =>
             IF EarlyPredicate
             THEN pc' = "report" /\ round_num' = round_num
             ELSE pc' = "lead" /\ round_num' = round_num + 1 ]_vars
    /\ NoRoundWhilePredicate
    /\ RoundsRunToCompletion

\* a game that ended after 10 rounds
EarlyTerminationWitness ==
    /\ pc = "done"
    /\ round_num = 10
    /\ EarlyPredicate

\* C6: the total score grows by exactly 1 in each completed round and never
\* otherwise changes, so at every round boundary it equals the rounds completed.
ScoreMonotonicity ==
    /\ [][ IF pc = "resolve" THEN TotalScore' = TotalScore + 1
                              ELSE TotalScore' = TotalScore ]_vars
    /\ [](pc = "loop" => TotalScore = round_num)

\* C7: a 16-0 final score is reported as the 16-point player shooting the
\* moon with the score 17-0.
ShootTheMoonReport ==
    pc = "done" =>
        /\ (ScoreOf(1) = 16 /\ ScoreOf(2) = 0) =>
              report = [ kind |-> "moon", who |-> name[1], high |-> 17, low |-> 0 ]
        /\ (ScoreOf(2) = 16 /\ ScoreOf(1) = 0) =>
              report = [ kind |-> "moon", who |-> name[2], high |-> 17, low |-> 0 ]

MoonSplit ==
    \/ (ScoreOf(1) = 16 /\ ScoreOf(2) = 0)
    \/ (ScoreOf(2) = 16 /\ ScoreOf(1) = 0)

\* C8: at game over outside a 16/0 split, the reported winner is the player
\* with the strictly higher score and a tie is reported iff the scores are equal.
FinalReportOutsideMoon ==
    (pc = "done" /\ ~ MoonSplit) =>
        /\ report.kind \in { "win", "tie" }
        /\ report.kind = "tie" <=> ScoreOf(1) = ScoreOf(2)
        /\ ScoreOf(1) > ScoreOf(2) => report.who = name[1]
        /\ ScoreOf(2) > ScoreOf(1) => report.who = name[2]

\* an 8-8 tie after 16 rounds
FinalReportWitness ==
    /\ pc = "done"
    /\ report.kind = "tie"
    /\ ScoreOf(1) = 8
    /\ name[1] # name[2]

\* C9: deals_done stays in 0..2; the hands grow in the re-deal step only when
\* both hold exactly 4 cards and fewer than 2 re-deals were done, and then each
\* hand gets exactly 4 cards taken from the top of the deck.
RedealCap ==
    /\ [](deals_done \in 0..2)
    /\ [][ deals_done' # deals_done => pc = "redeal" /\ hand' # hand ]_vars
    /\ [][ (pc = "redeal" /\ (hand' # hand \/ deck' # deck)) =>
             /\ Len(hand[1]) = 4 /\ Len(hand[2]) = 4
             /\ deals_done < 2
             /\ deals_done' = deals_done + 1
             /\ Len(deck') = Len(deck) - 8
             /\ \A p \in 1..2 :
                  /\ Len(hand'[p]) = 8
                  /\ SubSeq(hand'[p], 1, 4) = hand[p]
                  /\ Elems(SubSeq(hand'[p], 5, 8)) \subseteq Elems(deck) \ Elems(deck') ]_vars

\* both re-deals done
RedealWitness ==
    /\ pc = "loop"
    /\ deals_done = 2
    /\ Len(hand[1]) = 8
    /\ Len(hand[2]) = 8

\* C10: a line typed at a card prompt either is rejected, leaving the game
\* state untouched and the same prompt open, or selects a card of the
\* candidate list presented; it never ends the program with an error.  (The
\* end of the input stream is no line typed.)
InputValidation ==
    /\ [][ (pc = "lead" /\ err' # "EOFError") =>
             \/ /\ pc' = "lead"
                /\ UNCHANGED << name, hand, deck, score, leader, follower, deals_done,
                                round_num, lead_card, follow_card, winner >>
             \/ /\ pc' = "follow"
                /\ lead_card' \in Elems(get_lead_card(hand[leader])) ]_vars
    /\ [][ (pc = "follow" /\ err' # "EOFError") =>
             \/ /\ pc' = "follow"
                /\ UNCHANGED << name, hand, deck, score, leader, follower, deals_done,
                                round_num, lead_card, follow_card, winner >>
             \/ /\ pc' = "resolve"
                /\ follow_card' \in Elems(get_follow_card(hand[follower], lead_card.suit)) ]_vars
    /\ [](err \in { "none", "EOFError" })

\* C11: no draw and no deal ever finds the deck short: the reveal step always
\* finds a card and reveals it, the first deal leaves 32 cards after two hands
\* of 8, a re-deal that is due finds at least 8 cards, and no IndexError occurs.
DeckNeverShort ==
    /\ [](err # "IndexError")
    /\ [](pc = "reveal" => deck # << >>)
    /\ [][ pc = "reveal" => Cardinality(revealed') = Cardinality(revealed) + 1 ]_vars
    /\ [][ (~ SetupDone /\ SetupDone') =>
             Len(hand'[1]) = 8 /\ Len(hand'[2]) = 8 /\ Len(deck') = 32 ]_vars
    /\ [](( /\ pc = "redeal"
            /\ Len(hand[1]) = 4 /\ Len(hand[2]) = 4 /\ deals_done < 2 ) => Len(deck) >= 8)

\* the reveal of round 16 takes the last card of the deck
DeckNeverShortWitness ==
    /\ pc = "reveal"
    /\ round_num = 16
    /\ Len(deck) = 1

\* C12: resolving a trick adds exactly 1 to the winner's score and leaves the
\* other player's score unchanged, whatever names were entered.
ScoreUpdateOnlyWinner ==
    [][ pc = "resolve" =>
          /\ score'[name[winner']] = score[name[winner']] + 1
          /\ score'[name[Other(winner')]] = score[name[Other(winner')]] ]_vars

\* the winner of a trick as the rules give it, from the two cards played
TrickWinner ==
    IF follow_card.suit = lead_card.suit /\ Value(follow_card) > Value(lead_card)
    THEN follower
    ELSE leader

\* C13: leader and follower are always the two distinct players; resolving a
\* trick makes its winner the next leader and the other player the next
\* follower, and no other step of the game loop changes them.
LeaderRotation ==
    /\ [](leader \in 1..2 /\ follower \in 1..2 /\ leader # follower)
    /\ [][ pc = "resolve" =>
             /\ leader' = TrickWinner
             /\ follower' = Other(TrickWinner) ]_vars
    /\ [][ pc \notin { "resolve", "name2" } => UNCHANGED << leader, follower >> ]_vars
    /\ [](pc = "lead" /\ round_num >= 2 => leader = winner)

\* the follower of the previous round won its trick and now leads
LeaderRotationWitness ==
    /\ pc = "lead"
    /\ round_num >= 2
    /\ follow_card.suit = lead_card.suit
    /\ Value(follow_card) > Value(lead_card)
    /\ leader = winner
    /\ follower = Other(winner)

\* C14: in a round both hands are non-empty when the leader is prompted, and
\* the candidate lists of the lead and of the follow selection are non-empty.
NonEmptyCandidates ==
    /\ pc = "lead" =>
          /\ hand[leader] # << >>
          /\ hand[follower] # << >>
          /\ Len(get_lead_card(hand[leader])) >= 1
    /\ pc = "follow" =>
          Len(get_follow_card(hand[follower], lead_card.suit)) >= 1

\* the follow selection of round 16 offers the follower's last card
NonEmptyCandidatesWitness ==
    /\ pc = "follow"
    /\ round_num = 16
    /\ Len(hand[follower]) = 1

\* hand h without the card c
HandMinus(h, c, h2) ==
    /\ c \in Elems(h)
    /\ Len(h2) = Len(h) - 1
    /\ Elems(h2) = Elems(h) \ { c }

\* C15: a selection removes exactly the played card from the hand of the
\* player who played it and leaves the other hand alone; a played card is in
\* no hand and not in the deck; a hand shrinks only by one card at a
\* selection and grows only at the first deal (to 8) and at a re-deal (by 4).
HandSizeSteps ==
    /\ [][ (pc = "lead" /\ pc' = "follow") =>
             /\ HandMinus(hand[leader], lead_card', hand'[leader])
             /\ hand'[follower] = hand[follower] ]_vars
    /\ [][ (pc = "follow" /\ pc' = "resolve") =>
             /\ HandMinus(hand[follower], follow_card', hand'[follower])
             /\ hand'[leader] = hand[leader] ]_vars
    /\ [][ pc = "resolve" => pc' = "reveal" /\ hand' = hand ]_vars
    /\ [](played \cap (Elems(hand[1]) \cup Elems(hand[2]) \cup Elems(deck)) = {})
    /\ [](pc \in { "reveal", "redeal", "loop" } /\ round_num >= 1 =>
             Cardinality(played) = 2 * round_num)
    /\ [][ \A p \in 1..2 :
             /\ Len(hand'[p]) > Len(hand[p]) =>
                   \/ pc = "name2" /\ Len(hand'[p]) = 8
                   \/ pc = "redeal" /\ Len(hand'[p]) = Len(hand[p]) + 4
             /\ Len(hand'[p]) < Len(hand[p]) =>
                   /\ pc \in { "lead", "follow" }
                   /\ Len(hand'[p]) = Len(hand[p]) - 1 ]_vars

\* round 5, after the first re-deal: both players have played from 8 cards
HandSizeStepsWitness ==
    /\ pc = "resolve"
    /\ round_num = 5
    /\ Len(hand[1]) = 7
    /\ Len(hand[2]) = 7
    /\ deals_done = 1

\* C16: the reveal step takes exactly the top card off the deck and leaves
\* hands, scores, leader, follower, round counter and re-deal counter unchanged.
RevealIsCosmetic ==
    [][ pc = "reveal" =>
          /\ Len(deck') = Len(deck) - 1
          /\ deck' = SubSeq(deck, 1, Len(deck) - 1)
          /\ revealed' = revealed \cup { deck[Len(deck)] }
          /\ UNCHANGED << name, hand, score, leader, follower, round_num, deals_done >> ]_vars

\* the first reveal has happened
RevealIsCosmeticWitness ==
    /\ pc = "redeal"
    /\ round_num = 1
    /\ Cardinality(revealed) = 1
    /\ Len(deck) = 31

\* C17 as stated: no game is over with one score 16 and the other 0.
MoonBranchDead ==
    GameOver => ~ MoonSplit

\* C17 amended: early termination never ends a game in which a player has no
\* point, so a game that is over with a score of 0 has run all 16 rounds and
\* is a 16/0 split.
ZeroScoreMeansFullMoon ==
    (GameOver /\ (ScoreOf(1) = 0 \/ ScoreOf(2) = 0)) =>
        /\ round_num = 16
        /\ MoonSplit

\* a game over with a 16/0 split: the shoot-the-moon branch is taken
MoonBranchWitness ==
    /\ pc = "done"
    /\ MoonSplit
    /\ report.kind = "moon"

\* C18: game over is never reached before 10 rounds have been completed.
NoEndBeforeTenRounds ==
    GameOver => round_num >= 10

\* C19: a reported tie is an 8-8 score after exactly 16 rounds, and in every
\* other game-over state the reported winner has at least 9 points.
TieOnlyAtFullLength ==
    pc = "done" =>
        /\ report.kind = "tie" =>
              round_num = 16 /\ ScoreOf(1) = 8 /\ ScoreOf(2) = 8
        /\ report.kind # "tie" =>
              \E p \in 1..2 : name[p] = report.who /\ ScoreOf(p) >= 9

\* C20: at every round boundary the hands are equally long and the deck holds
\* 32 - rounds - 8 * deals_done cards; the re-deals happen exactly after rounds
\* 4 and 8; after 16 rounds the deck and both hands are empty at game over.
DealSchedule ==
    /\ [](pc = "loop" =>
             /\ Len(hand[1]) = Len(hand[2])
             /\ Len(deck) = 32 - round_num - 8 * deals_done
             /\ deals_done = (IF round_num < 4 THEN 0 ELSE IF round_num < 8 THEN 1 ELSE 2))
    /\ [][ deals_done' # deals_done =>
             pc = "redeal" /\ round_num \in { 4, 8 } ]_vars
    /\ [](GameOver /\ round_num = 16 =>
             deck = << >> /\ hand[1] = << >> /\ hand[2] = << >>)

\* a full game: two re-deals done, deck and hands used up
DealScheduleWitness ==
    /\ pc = "done"
    /\ round_num = 16
    /\ deals_done = 2
    /\ deck = << >>
    /\ hand[1] = << >>
    /\ hand[2] = << >>

====
